---- MODULE Spec2Model ----
(***************************************************************************)
(* State-machine model of the chat widget of src/src/components/           *)
(* ChatWidget.tsx and its transport client src/src/api/ChatClient.ts.      *)
(*                                                                         *)
(* The component is rendered through createRoot (src/src/entry-cdn.tsx),   *)
(* so state updates made inside one event handler or one promise           *)
(* continuation are batched and committed together, and the updates made   *)
(* synchronously by a click/keydown handler are committed (with their      *)
(* effects) before the browser dispatches the next event.  Every action    *)
(* below therefore contains the re-render and the effects that its state   *)
(* updates trigger; handlers read the committed state.                     *)
(***************************************************************************)
EXTENDS Integers, Sequences, FiniteSets, TLC

\* ------------------------------------------------------------------ bounds
MaxTurns == 2          \* user turns started in one behaviour
MaxReplyTimers == 1    \* reply scroll timers pending at once
MaxLen == 3            \* characters typed after the start of a message text

\* ------------------------------------------------------- values and helpers
UNDEFINED == "<undefined>"
NULL == "<null>"

\* JavaScript truthiness of an optional string
Truthy(s) == s # UNDEFINED /\ s # NULL /\ s # ""

\* a || b on optional strings
Or(a, b) == IF Truthy(a) THEN a ELSE b

\* optional array: absent (undefined) or an array value
Absent == [present |-> FALSE, val |-> <<>>]
Some(v) == [present |-> TRUE, val |-> v]

\* x ?? []
Coalesce(opt) == IF opt.present THEN opt.val ELSE <<>>

RemoveAt(s, i) == [j \in 1..(Len(s) - 1) |-> IF j < i THEN s[j] ELSE s[j + 1]]

IsPrefix(s, t) == Len(s) <= Len(t) /\ \A i \in 1..Len(s) : s[i] = t[i]

\* the inputs the environment supplies
TypedTexts == {"", "a"}
FollowupLists == {<<"f", "">>}
OptFollowups == {Absent} \cup {Some(l) : l \in FollowupLists}
Tokens == {"t1", "t2"}
Replies == {"r"}
IntroTexts == {UNDEFINED, "hi"}

\* the proximity threshold of handleScroll and the distances tried
threshold == 100
Distances == {0, 99, 100, 250}

\* ------------------------------------------------------------- transcript
UserTurn(text) == [role |-> "user", text |-> text, intro |-> FALSE]
AiTurn(text) == [role |-> "ai", text |-> text, intro |-> FALSE]
IntroTurn(text) == [role |-> "ai", text |-> text, intro |-> TRUE]

NumUserTurns(m) == Cardinality({i \in 1..Len(m) : m[i].role = "user"})

\* ------------------------------------------------------- transport client
\* what the network can answer to the config fetch
ConfigBodies ==
    {[initialMessage |-> msg, followups |-> f] :
        msg \in IntroTexts, f \in OptFollowups}

EmptyConfig == [initialMessage |-> UNDEFINED, followups |-> Absent]

ConfigNetResults ==
    {[kind |-> "reject", ok |-> FALSE, jsonOk |-> FALSE, json |-> EmptyConfig]}
    \cup {[kind |-> "http", ok |-> FALSE, jsonOk |-> j, json |-> EmptyConfig] :
            j \in BOOLEAN}
    \cup {[kind |-> "http", ok |-> TRUE, jsonOk |-> FALSE, json |-> EmptyConfig]}
    \cup {[kind |-> "http", ok |-> TRUE, jsonOk |-> TRUE, json |-> b] :
            b \in ConfigBodies}

\* ChatClient.getConfig: rejects only when fetch itself rejects
GetConfig(net) ==
    IF net.kind = "reject" THEN [threw |-> TRUE, cfg |-> EmptyConfig]
    ELSE IF ~net.ok THEN [threw |-> FALSE, cfg |-> EmptyConfig]
    ELSE IF ~net.jsonOk THEN [threw |-> FALSE, cfg |-> EmptyConfig]
    ELSE [threw |-> FALSE, cfg |-> net.json]

NoResponse == [reply |-> "", scopeId |-> UNDEFINED, followups |-> Absent]

ChatBodies ==
    {[reply |-> r, scopeId |-> t, followups |-> f] :
        r \in Replies, t \in Tokens, f \in OptFollowups}

\* a network answer to the chat request
ChatNet(kind, errMessage, ok, status, bodyText, statusText, jsonOk, json) ==
    [kind |-> kind, errMessage |-> errMessage, ok |-> ok, status |-> status,
     bodyText |-> bodyText, statusText |-> statusText, jsonOk |-> jsonOk,
     json |-> json]

\* the non-success statuses tried
FailureStatuses == {400, 401, 403, 404, 429, 500, 502, 503}

\* every answer considered: fetch rejects, a non-success status with or
\* without body and status line, a success status with an undecodable or a
\* decodable body
AllChatNetResults ==
    {ChatNet("reject", e, FALSE, 0, "", "", FALSE, NoResponse) :
        e \in {"", "Failed to fetch"}}
    \cup {ChatNet("http", "", FALSE, st, b, s, FALSE, NoResponse) :
            st \in FailureStatuses, b \in {"", "body"}, s \in {"", "status"}}
    \cup {ChatNet("http", "Unexpected token", TRUE, 200, "", "", FALSE, NoResponse)}
    \cup {ChatNet("http", "", TRUE, 200, "", "", TRUE, b) : b \in ChatBodies}

\* the answers the network gives in the behaviours of the widget
ChatNetResults ==
    {ChatNet("reject", "Failed to fetch", FALSE, 0, "", "", FALSE, NoResponse),
     ChatNet("http", "", FALSE, 429, "body", "", FALSE, NoResponse),
     ChatNet("http", "", FALSE, 500, "", "status", FALSE, NoResponse)}
    \cup {ChatNet("http", "", TRUE, 200, "", "", TRUE, b) : b \in ChatBodies}

\* new ApiError(message, status, body)
ApiError(message, status, body) ==
    [threw |-> "ApiError", message |-> message, status |-> status,
     body |-> body, res |-> NoResponse]

\* ChatClient.send: the settled outcome of the promise
ClientSend(net) ==
    IF net.kind = "reject"
    THEN [threw |-> "Error", message |-> net.errMessage, status |-> 0,
          body |-> "", res |-> NoResponse]
    ELSE IF ~net.ok
    THEN ApiError(Or(Or(net.bodyText, net.statusText), "Chat request failed"),
                  net.status, net.bodyText)
    ELSE IF ~net.jsonOk
    THEN [threw |-> "Error", message |-> net.errMessage, status |-> 0,
          body |-> "", res |-> NoResponse]
    ELSE [threw |-> "none", message |-> "", status |-> 0, body |-> "",
          res |-> net.json]

Pending == [threw |-> "pending", message |-> "", status |-> 0, body |-> "",
            res |-> NoResponse]

\* mutant: the banner shows the response body only
ErrorTextBodyOnly(err) == err.body

\* the text the catch block of send puts into the error banner
ErrorText(err) ==
    IF err.threw = "ApiError"
    THEN IF err.status = 429
         THEN Or(Or(err.body, err.message), "Rate limit exceeded for this configuration.")
         ELSE Or(Or(err.body, err.message),
                 "Server error (" \o ToString(err.status) \o ")")
    ELSE Or(err.message, "Chat request failed.")

\* ------------------------------------------------------------------ state
VARIABLES
    props,                \* initialMessage, initialFollowups
    phase,                \* "constructed", "mounted" or "unmounted"
    messages,             \* the transcript
    followups,            \* pending follow-up suggestions
    scopeId,              \* session token
    userNearBottom,       \* proximity flag
    isTyping,             \* awaiting a reply
    rateLimitMessage,     \* error banner text or NULL
    didInitialScrollRef,  \* first non-animated scroll done
    chatReqs,             \* chat requests in flight, with their outcome once settled
    cfgFetch,             \* the bootstrap config fetch
    initialScrollTimer,   \* timer of the first-population scroll effect pending
    mountScrollTimer,     \* timer of the mount scroll effect pending
    replyScrollTimers,    \* timers set by successful replies pending
    lastScroll,           \* scrollToBottom call made by the last step
    errNet,               \* a network answer whose error text is computed
    errOutcome,           \* what client.send settles to for errNet
    errShown,             \* the banner text the catch block derives from it
    fmtText,              \* a message text handed to formatMessageToHtml
    html,                 \* the markup formatMessageToHtml returns for it
    rendered              \* html holds the rendering of fmtText

vars == <<props, phase, messages, followups, scopeId, userNearBottom, isTyping,
          rateLimitMessage, didInitialScrollRef, chatReqs, cfgFetch,
          initialScrollTimer, mountScrollTimer, replyScrollTimers, lastScroll,
          errNet, errOutcome, errShown, fmtText, html, rendered>>

\* the variables of the pure functions, which the widget's steps leave alone
pure == <<errNet, errOutcome, errShown, fmtText, html, rendered>>

\* the variables of the widget, which the pure functions' steps leave alone
widget == <<props, phase, messages, followups, scopeId, userNearBottom, isTyping,
            rateLimitMessage, didInitialScrollRef, chatReqs, cfgFetch,
            initialScrollTimer, mountScrollTimer, replyScrollTimers, lastScroll>>

\* mutant: the cleanup of the mount effect does not clear the flag
mountedNeverCleared == phase # "constructed"

\* the mounted flag of the mount effect
mounted == phase = "mounted"

NoFetch == [state |-> "none", net |-> CHOOSE n \in ConfigNetResults : n.kind = "reject"]

\* the props the host page passes: no preset (the config is fetched), a
\* preset intro alone, a preset intro with follow-ups
PropsChoices ==
    {[initialMessage |-> UNDEFINED, initialFollowups |-> Absent],
     [initialMessage |-> "hi", initialFollowups |-> Absent],
     [initialMessage |-> "hi", initialFollowups |-> Some(<<"f", "">>)]}

\* no pure function is being evaluated
PureIdle ==
    /\ errNet = ChatNet("reject", "", FALSE, 0, "", "", FALSE, NoResponse)
    /\ errOutcome = Pending
    /\ errShown = NULL
    /\ fmtText = <<>>
    /\ html = <<>>
    /\ rendered = FALSE

Init ==
    /\ PureIdle
    /\ props \in PropsChoices
    /\ phase = "constructed"
    /\ messages = <<>>
    /\ followups = <<>>
    /\ scopeId = UNDEFINED
    /\ userNearBottom = TRUE
    /\ isTyping = FALSE
    /\ rateLimitMessage = NULL
    /\ didInitialScrollRef = FALSE
    /\ chatReqs = <<>>
    /\ cfgFetch = NoFetch
    /\ initialScrollTimer = FALSE
    /\ mountScrollTimer = FALSE
    /\ replyScrollTimers = 0
    /\ lastScroll = "none"

\* ---------------------------------------------------------------- effects
\* effect on [messages, userNearBottom]: what scrollToBottom call it makes
FollowEffect(changed, near) == IF changed /\ near THEN "smooth" ELSE "none"

\* effect on [messages]: is its timer pending after the commit
InitialScrollEffect(changed, msgs, timer) ==
    IF changed THEN ~didInitialScrollRef /\ Len(msgs) # 0 ELSE timer

\* mutant: the intro replaces whatever the transcript holds
ApplyMessagesOverwrite(msg, m) ==
    IF Truthy(msg) THEN <<IntroTurn(msg)>> ELSE m

\* mutant: the intro is added whatever the transcript holds
ApplyMessagesAppend(msg, m) ==
    IF Truthy(msg) THEN Append(m, IntroTurn(msg)) ELSE m

\* apply(msg, fups) of the mount effect, on the transcript
ApplyMessages(msg, m) ==
    IF Truthy(msg) THEN (IF Len(m) = 0 THEN <<IntroTurn(msg)>> ELSE m) ELSE m

\* apply(msg, fups) of the mount effect, on the follow-ups (an array is truthy)
ApplyFollowups(fups, old) == fups

\* ---------------------------------------------------------------- actions
\* the effects run after the first commit: follow effect, first-population
\* effect, the mount effect (preset intro or config fetch), mount scroll timer
MountEffect ==
    /\ phase = "constructed"
    /\ phase' = "mounted"
    /\ IF Truthy(props.initialMessage)
       THEN /\ messages' = ApplyMessages(props.initialMessage, messages)
            /\ followups' = ApplyFollowups(Coalesce(props.initialFollowups), followups)
            /\ cfgFetch' = cfgFetch
       ELSE /\ cfgFetch' = [cfgFetch EXCEPT !.state = "pending"]
            /\ UNCHANGED <<messages, followups>>
    /\ initialScrollTimer' = InitialScrollEffect(messages' # messages, messages', FALSE)
    /\ mountScrollTimer' = TRUE
    /\ lastScroll' = FollowEffect(TRUE, userNearBottom)
    /\ UNCHANGED <<pure, props, scopeId, userNearBottom, isTyping, rateLimitMessage,
                   didInitialScrollRef, chatReqs, replyScrollTimers>>

\* mutant: the request does not echo the session token
ChatRequestNoScope(text) ==
    [message |-> text, scopeId |-> UNDEFINED, outcome |-> Pending]

\* the request send passes to client.send, not yet settled
ChatRequest(text) ==
    [message |-> text, scopeId |-> scopeId, outcome |-> Pending]

\* mutant: send issues the request without raising isTyping
SendNoTyping(text) ==
    /\ messages' = Append(messages, UserTurn(text))
    /\ isTyping' = isTyping
    /\ chatReqs' = Append(chatReqs, ChatRequest(text))
    /\ initialScrollTimer' = InitialScrollEffect(TRUE, messages', initialScrollTimer)
    /\ lastScroll' = FollowEffect(TRUE, userNearBottom)
    /\ UNCHANGED <<pure, props, phase, scopeId, userNearBottom, rateLimitMessage,
                   didInitialScrollRef, cfgFetch, mountScrollTimer,
                   replyScrollTimers>>

\* send(text) up to its await, with the commit that follows the handler;
\* it does not touch followups or rateLimitMessage
Send(text) ==
    /\ messages' = Append(messages, UserTurn(text))
    /\ isTyping' = TRUE
    /\ chatReqs' = Append(chatReqs, ChatRequest(text))
    /\ initialScrollTimer' = InitialScrollEffect(TRUE, messages', initialScrollTimer)
    /\ lastScroll' = FollowEffect(TRUE, userNearBottom)
    /\ UNCHANGED <<pure, props, phase, scopeId, userNearBottom, rateLimitMessage,
                   didInitialScrollRef, cfgFetch, mountScrollTimer,
                   replyScrollTimers>>

\* mutant: the input stays disabled once rateLimitMessage is not undefined
InputEnabledStrict == ~(isTyping \/ rateLimitMessage # UNDEFINED)

\* is the text input enabled in the committed render
InputEnabled == ~(isTyping \/ Truthy(rateLimitMessage))

\* mutant: the chips stay visible while a reply is awaited
ChipsShownUngated == Len(followups) > 0

\* are the follow-up chips shown in the committed render
ChipsShown == Len(followups) > 0 /\ ~isTyping

\* Enter pressed in the input holding the value text
OnKeyDown(text) ==
    /\ mounted
    /\ InputEnabled
    /\ NumUserTurns(messages) < MaxTurns
    /\ IF text # "" /\ ~isTyping
       THEN Send(text) /\ UNCHANGED followups
       ELSE UNCHANGED vars

\* mutant: the click sends the chip's text and leaves the chips in place
HandleFollowupClickKeep(i) ==
    /\ mounted
    /\ ChipsShown
    /\ NumUserTurns(messages) < MaxTurns
    /\ followups' = followups
    /\ Send(followups[i])

\* click on the i-th follow-up chip
HandleFollowupClick(i) ==
    /\ mounted
    /\ ChipsShown
    /\ NumUserTurns(messages) < MaxTurns
    /\ followups' = <<>>
    /\ Send(followups[i])

\* the network settles the i-th chat request
ChatSettle(i, net) ==
    /\ chatReqs[i].outcome.threw = "pending"
    /\ chatReqs' = [chatReqs EXCEPT ![i].outcome = ClientSend(net)]
    /\ lastScroll' = "none"
    /\ UNCHANGED <<pure, props, phase, messages, followups, scopeId, userNearBottom,
                   isTyping, rateLimitMessage, didInitialScrollRef, cfgFetch,
                   initialScrollTimer, mountScrollTimer, replyScrollTimers>>

\* mutant: follow-ups are replaced only when the response carries some
TryBranchKeepFollowups(res) ==
    /\ scopeId' = res.scopeId
    /\ messages' = Append(messages, AiTurn(res.reply))
    /\ followups' = IF res.followups.present THEN res.followups.val ELSE followups

\* mutant: the reply takes the place of the optimistic user turn
TryBranchReplaceLast(res) ==
    /\ scopeId' = res.scopeId
    /\ messages' = [messages EXCEPT ![Len(messages)] = AiTurn(res.reply)]
    /\ followups' = Coalesce(res.followups)

\* the state updates of the try branch of send, after the await
TryBranch(res) ==
    /\ scopeId' = res.scopeId
    /\ messages' = Append(messages, AiTurn(res.reply))
    /\ followups' = Coalesce(res.followups)

\* mutant: isTyping is not reset when send ends
FinallyMissing == isTyping' = isTyping

\* the finally block of send
Finally == isTyping' = FALSE

\* send resumes after its await with a response: the try branch and finally
SendSuccess(i) ==
    LET res == chatReqs[i].outcome.res IN
    /\ chatReqs[i].outcome.threw = "none"
    /\ replyScrollTimers < MaxReplyTimers
    /\ chatReqs' = RemoveAt(chatReqs, i)
    /\ replyScrollTimers' = replyScrollTimers + 1
    /\ IF mounted
       THEN /\ TryBranch(res)
            /\ Finally
            /\ initialScrollTimer' =
                  InitialScrollEffect(TRUE, messages', initialScrollTimer)
            /\ lastScroll' = FollowEffect(TRUE, userNearBottom)
       ELSE /\ lastScroll' = "none"
            /\ UNCHANGED <<scopeId, messages, followups, isTyping,
                           initialScrollTimer>>
    /\ UNCHANGED <<pure, props, phase, userNearBottom, rateLimitMessage,
                   didInitialScrollRef, cfgFetch, mountScrollTimer>>

\* send resumes after its await with a thrown error: the catch branch and finally
SendFailure(i) ==
    /\ chatReqs[i].outcome.threw \in {"ApiError", "Error", "other"}
    /\ chatReqs' = RemoveAt(chatReqs, i)
    /\ IF mounted
       THEN /\ rateLimitMessage' = ErrorText(chatReqs[i].outcome)
            /\ Finally
       ELSE UNCHANGED <<rateLimitMessage, isTyping>>
    /\ lastScroll' = "none"
    /\ UNCHANGED <<pure, props, phase, messages, followups, scopeId, userNearBottom,
                   didInitialScrollRef, cfgFetch, initialScrollTimer,
                   mountScrollTimer, replyScrollTimers>>

\* the network settles the bootstrap config fetch
ConfigSettle(net) ==
    /\ cfgFetch.state = "pending"
    /\ cfgFetch' = [state |-> "settled", net |-> net]
    /\ lastScroll' = "none"
    /\ UNCHANGED <<pure, props, phase, messages, followups, scopeId, userNearBottom,
                   isTyping, rateLimitMessage, didInitialScrollRef, chatReqs,
                   initialScrollTimer, mountScrollTimer, replyScrollTimers>>

\* the mount effect's async function resumes after await client.getConfig
ConfigResume ==
    LET got == GetConfig(cfgFetch.net) IN
    /\ cfgFetch.state = "settled"
    /\ cfgFetch' = [cfgFetch EXCEPT !.state = "done"]
    /\ IF ~got.threw /\ mounted
       THEN /\ messages' = ApplyMessages(got.cfg.initialMessage, messages)
            /\ followups' = ApplyFollowups(Coalesce(got.cfg.followups), followups)
       ELSE UNCHANGED <<messages, followups>>
    /\ initialScrollTimer' =
          InitialScrollEffect(messages' # messages, messages', initialScrollTimer)
    /\ lastScroll' = FollowEffect(messages' # messages, userNearBottom)
    /\ UNCHANGED <<pure, props, phase, scopeId, userNearBottom, isTyping,
                   rateLimitMessage, didInitialScrollRef, chatReqs,
                   mountScrollTimer, replyScrollTimers>>

\* mutant: dismissing the error also drops the follow-up chips
DismissClearsFollowups ==
    /\ mounted
    /\ Truthy(rateLimitMessage)
    /\ rateLimitMessage' = NULL
    /\ followups' = <<>>
    /\ lastScroll' = "none"
    /\ UNCHANGED <<pure, props, phase, messages, scopeId, userNearBottom,
                   isTyping, didInitialScrollRef, chatReqs, cfgFetch,
                   initialScrollTimer, mountScrollTimer, replyScrollTimers>>

\* click on Dismiss in the error banner
Dismiss ==
    /\ mounted
    /\ Truthy(rateLimitMessage)
    /\ rateLimitMessage' = NULL
    /\ lastScroll' = "none"
    /\ UNCHANGED <<pure, props, phase, messages, followups, scopeId, userNearBottom,
                   isTyping, didInitialScrollRef, chatReqs, cfgFetch,
                   initialScrollTimer, mountScrollTimer, replyScrollTimers>>

\* scroll notification of the message viewport, dist from the bottom
HandleScroll(dist) ==
    LET isNear == dist < threshold IN
    /\ mounted
    /\ userNearBottom' = isNear
    /\ lastScroll' = FollowEffect(isNear # userNearBottom, isNear)
    /\ UNCHANGED <<pure, props, phase, messages, followups, scopeId, isTyping,
                   rateLimitMessage, didInitialScrollRef, chatReqs, cfgFetch,
                   initialScrollTimer, mountScrollTimer, replyScrollTimers>>

\* timer of the first-population effect: scrollToBottom(false)
FireInitialScroll ==
    /\ initialScrollTimer
    /\ initialScrollTimer' = FALSE
    /\ didInitialScrollRef' = TRUE
    /\ lastScroll' = "auto"
    /\ UNCHANGED <<pure, props, phase, messages, followups, scopeId, userNearBottom,
                   isTyping, rateLimitMessage, chatReqs, cfgFetch,
                   mountScrollTimer, replyScrollTimers>>

\* timer of the mount scroll effect: scrollToBottom(false)
FireMountScroll ==
    /\ mountScrollTimer
    /\ mountScrollTimer' = FALSE
    /\ lastScroll' = "auto"
    /\ UNCHANGED <<pure, props, phase, messages, followups, scopeId, userNearBottom,
                   isTyping, rateLimitMessage, didInitialScrollRef, chatReqs,
                   cfgFetch, initialScrollTimer, replyScrollTimers>>

\* timer and animation frame set by a successful reply: scrollToBottom(true),
\* which returns at once when the viewport element is gone
FireReplyScroll ==
    /\ replyScrollTimers > 0
    /\ replyScrollTimers' = replyScrollTimers - 1
    /\ lastScroll' = IF mounted THEN "smooth" ELSE "none"
    /\ UNCHANGED <<pure, props, phase, messages, followups, scopeId, userNearBottom,
                   isTyping, rateLimitMessage, didInitialScrollRef, chatReqs,
                   cfgFetch, initialScrollTimer, mountScrollTimer>>

\* the component is torn down: effect cleanups run, state is no longer updated
Unmount ==
    /\ mounted
    /\ phase' = "unmounted"
    /\ initialScrollTimer' = FALSE
    /\ mountScrollTimer' = FALSE
    /\ lastScroll' = "none"
    /\ UNCHANGED <<pure, props, messages, followups, scopeId, userNearBottom,
                   isTyping, rateLimitMessage, didInitialScrollRef, chatReqs,
                   cfgFetch, replyScrollTimers>>

Next ==
    \/ MountEffect
    \/ \E text \in TypedTexts : OnKeyDown(text)
    \/ \E i \in 1..Len(followups) : HandleFollowupClick(i)
    \/ \E i \in 1..Len(chatReqs), net \in ChatNetResults : ChatSettle(i, net)
    \/ \E i \in 1..Len(chatReqs) : SendSuccess(i)
    \/ \E i \in 1..Len(chatReqs) : SendFailure(i)
    \/ \E net \in ConfigNetResults : ConfigSettle(net)
    \/ ConfigResume
    \/ Dismiss
    \/ \E dist \in Distances : HandleScroll(dist)
    \/ FireInitialScroll
    \/ FireMountScroll
    \/ FireReplyScroll
    \/ Unmount

Spec == Init /\ [][Next]_vars

\* ------------------------------------------- the error text as a function
\* the state before the widget's effects run, with no preset
WidgetIdle ==
    /\ props = [initialMessage |-> UNDEFINED, initialFollowups |-> Absent]
    /\ phase = "constructed"
    /\ messages = <<>>
    /\ followups = <<>>
    /\ scopeId = UNDEFINED
    /\ userNearBottom = TRUE
    /\ isTyping = FALSE
    /\ rateLimitMessage = NULL
    /\ didInitialScrollRef = FALSE
    /\ chatReqs = <<>>
    /\ cfgFetch = NoFetch
    /\ initialScrollTimer = FALSE
    /\ mountScrollTimer = FALSE
    /\ replyScrollTimers = 0
    /\ lastScroll = "none"

InitErr ==
    /\ WidgetIdle
    /\ errNet \in AllChatNetResults
    /\ errOutcome = Pending
    /\ errShown = NULL
    /\ fmtText = <<>>
    /\ html = <<>>
    /\ rendered = FALSE

\* client.send settles for the answer errNet
ErrSettle ==
    /\ errOutcome.threw = "pending"
    /\ errOutcome' = ClientSend(errNet)
    /\ UNCHANGED <<widget, errNet, errShown, fmtText, html, rendered>>

\* the catch block of send derives the banner text
ErrCatch ==
    /\ errOutcome.threw \in {"ApiError", "Error", "other"}
    /\ errShown = NULL
    /\ errShown' = ErrorText(errOutcome)
    /\ UNCHANGED <<widget, errNet, errOutcome, fmtText, html, rendered>>

NextErr == ErrSettle \/ ErrCatch

SpecErr == InitErr /\ [][NextErr]_vars

\* ------------------------------------------------------------ the renderer
\* Texts are sequences of one-character strings.  The markup returned is a
\* sequence of characters each marked as emitted by the renderer (m) or
\* copied from the text; the regular expressions applied to it look at the
\* character only.
NL == "\n"
CR == "\r"

\* \s of the regular expressions and the characters trim() removes
IsSpace(c) == c \in {" ", NL, CR, "\t"}

\* \d
IsDigit(c) == c \in {"0", "1", "2", "3", "4", "5", "6", "7", "8", "9"}

\* the characters . does not match
IsLineTerminator(c) == c \in {NL, CR}

Reserved == {"&", "<", ">", "\"", "'"}

\* the characters typed into a message text
Alphabet == Reserved \cup {"*", "-", "1", ".", ":", NL, " ", "a"}

\* the starts of the message texts tried: nothing, a numbered heading up to
\* its colon, a bullet, a number, a first bullet line, a CRLF line end
Starters ==
    {<<>>,
     <<"1", ".", "a", ":">>,
     <<"-", " ">>,
     <<"1", ".", " ">>,
     <<"-", " ", "a", NL, "-", " ">>,
     <<"a", CR, NL>>}

\* markup emitted by the renderer
Mk(s) == [i \in DOMAIN s |-> [c |-> s[i], m |-> TRUE]]

\* a piece of the text, not yet escaped
Lift(s) == [i \in DOMAIN s |-> [c |-> s[i], m |-> FALSE]]

RECURSIVE Flatten(_)
\* join("") of a sequence of sequences
Flatten(ss) == IF ss = <<>> THEN <<>> ELSE Head(ss) \o Flatten(Tail(ss))

\* string.replace(/ch/g, entity)
ReplaceChar(ts, ch, entity) ==
    Flatten([i \in DOMAIN ts |-> IF ts[i].c = ch THEN Mk(entity) ELSE <<ts[i]>>])

\* mutant: the quote characters are left as they are
escapeHtmlNoQuotes(unsafe) ==
    ReplaceChar(
      ReplaceChar(
        ReplaceChar(Lift(unsafe), "&", <<"&", "a", "m", "p", ";">>),
        "<", <<"&", "l", "t", ";">>),
      ">", <<"&", "g", "t", ";">>)

\* escapeHtml: five replacements in turn, the ampersand first
escapeHtml(unsafe) ==
    ReplaceChar(
      ReplaceChar(
        ReplaceChar(
          ReplaceChar(
            ReplaceChar(Lift(unsafe), "&", <<"&", "a", "m", "p", ";">>),
            "<", <<"&", "l", "t", ";">>),
          ">", <<"&", "g", "t", ";">>),
        "\"", <<"&", "q", "u", "o", "t", ";">>),
      "'", <<"&", "#", "0", "3", "9", ";">>)

\* first index from i on whose character is not white space, Len + 1 if none
RECURSIVE SkipSpace(_, _)
SkipSpace(s, i) ==
    IF i <= Len(s) /\ IsSpace(s[i]) THEN SkipSpace(s, i + 1) ELSE i

\* first index from i on whose character is not a digit, Len + 1 if none
RECURSIVE SkipDigits(_, _)
SkipDigits(s, i) ==
    IF i <= Len(s) /\ IsDigit(s[i]) THEN SkipDigits(s, i + 1) ELSE i

\* last index up to i whose character is not white space, 0 if none
RECURSIVE SkipSpaceBack(_, _)
SkipSpaceBack(s, i) ==
    IF i >= 1 /\ IsSpace(s[i]) THEN SkipSpaceBack(s, i - 1) ELSE i

\* string.trim()
Trim(s) == SubSeq(s, SkipSpace(s, 1), SkipSpaceBack(s, Len(s)))

\* text.replace(/\r\n/g, "\n").replace(/\r/g, "\n")
RECURSIVE ReplaceCRLF(_)
ReplaceCRLF(s) ==
    IF s = <<>> THEN <<>>
    ELSE IF Len(s) >= 2 /\ s[1] = CR /\ s[2] = NL
         THEN <<NL>> \o ReplaceCRLF(SubSeq(s, 3, Len(s)))
         ELSE <<s[1]>> \o ReplaceCRLF(Tail(s))

Normalize(s) ==
    LET t == ReplaceCRLF(s) IN [i \in DOMAIN t |-> IF t[i] = CR THEN NL ELSE t[i]]

\* first index from i on whose character is not a newline, Len + 1 if none
RECURSIVE SkipNewlines(_, _)
SkipNewlines(s, i) ==
    IF i <= Len(s) /\ s[i] = NL THEN SkipNewlines(s, i + 1) ELSE i

\* raw.split(/\n\n+/), cur being the block read so far
RECURSIVE SplitBlocksFrom(_, _, _)
SplitBlocksFrom(s, i, cur) ==
    IF i > Len(s) THEN <<cur>>
    ELSE IF s[i] = NL /\ i < Len(s) /\ s[i + 1] = NL
         THEN <<cur>> \o SplitBlocksFrom(s, SkipNewlines(s, i), <<>>)
         ELSE SplitBlocksFrom(s, i + 1, Append(cur, s[i]))

SplitBlocks(s) == SplitBlocksFrom(s, 1, <<>>)

\* block.split(/\n/), cur being the line read so far
RECURSIVE SplitLinesFrom(_, _, _)
SplitLinesFrom(s, i, cur) ==
    IF i > Len(s) THEN <<cur>>
    ELSE IF s[i] = NL
         THEN <<cur>> \o SplitLinesFrom(s, i + 1, <<>>)
         ELSE SplitLinesFrom(s, i + 1, Append(cur, s[i]))

SplitLines(s) == SplitLinesFrom(s, 1, <<>>)

\* rest.split(/\s*-\s+/): a dash followed by white space separates; the
\* white space before the dash stays on the piece and is trimmed afterwards
RECURSIVE SplitDashFrom(_, _, _)
SplitDashFrom(s, i, cur) ==
    IF i > Len(s) THEN <<cur>>
    ELSE IF s[i] = "-" /\ i < Len(s) /\ IsSpace(s[i + 1])
         THEN <<cur>> \o SplitDashFrom(s, SkipSpace(s, i + 1), <<>>)
         ELSE SplitDashFrom(s, i + 1, Append(cur, s[i]))

SplitDash(s) == SplitDashFrom(s, 1, <<>>)

\* first index from i on whose character is a colon, Len + 1 if none
RECURSIVE FirstColon(_, _)
FirstColon(s, i) ==
    IF i <= Len(s) /\ s[i] # ":" THEN FirstColon(s, i + 1) ELSE i

\* block.match(/^\s*(\d+\.\s*[^:]+):\s*(.+)$/s): the two groups
NumberedWithDashes(block) ==
    LET p == SkipSpace(block, 1)
        d == SkipDigits(block, p)
        k == FirstColon(block, d + 1)
        n == Len(block)
        after == SubSeq(block, k + 1, n)
        lead == SubSeq(after, SkipSpace(after, 1), Len(after))
    IN IF d > p /\ d <= n /\ block[d] = "." /\ k > d + 1 /\ k < n
       THEN [matched |-> TRUE,
             g1 |-> SubSeq(block, p, k - 1),
             g2 |-> IF lead = <<>> THEN <<after[Len(after)]>> ELSE lead]
       ELSE [matched |-> FALSE, g1 |-> <<>>, g2 |-> <<>>]

\* two asterisks at i
StarsAt(ts, i) == i + 1 <= Len(ts) /\ ts[i].c = "*" /\ ts[i + 1].c = "*"

\* index of the nearest closing ** from j on with no line end before it, 0 if none
RECURSIVE ClosingStars(_, _)
ClosingStars(ts, j) ==
    IF j + 1 > Len(ts) THEN 0
    ELSE IF StarsAt(ts, j) THEN j
    ELSE IF IsLineTerminator(ts[j].c) THEN 0
    ELSE ClosingStars(ts, j + 1)

STRONG == Mk(<<"<", "s", "t", "r", "o", "n", "g", ">">>)
STRONG_END == Mk(<<"<", "/", "s", "t", "r", "o", "n", "g", ">">>)

\* escaped.replace(/\*\*(.*?)\*\*/g, "<strong>$1</strong>") from index i on
RECURSIVE BoldFrom(_, _)
BoldFrom(ts, i) ==
    IF i > Len(ts) THEN <<>>
    ELSE LET j == IF StarsAt(ts, i) THEN ClosingStars(ts, i + 2) ELSE 0
         IN IF j # 0
            THEN STRONG \o SubSeq(ts, i + 2, j - 1) \o STRONG_END
                   \o BoldFrom(ts, j + 2)
            ELSE <<ts[i]>> \o BoldFrom(ts, i + 1)

Bold(ts) == BoldFrom(ts, 1)

\* headingText.replace(/^\*\*(.*)\*\*$/, "$1")
StripStars(h) ==
    IF /\ Len(h) >= 4
       /\ h[1] = "*" /\ h[2] = "*" /\ h[Len(h) - 1] = "*" /\ h[Len(h)] = "*"
       /\ \A i \in 3..(Len(h) - 2) : ~IsLineTerminator(h[i])
    THEN SubSeq(h, 3, Len(h) - 2)
    ELSE h

\* `<li>${escapeHtml(it).replace(bold)}</li>`
ListItem(it) ==
    Mk(<<"<", "l", "i", ">">>) \o Bold(escapeHtml(it))
      \o Mk(<<"<", "/", "l", "i", ">">>)

\* keep the elements of ss that are not empty: filter(Boolean)
RECURSIVE FilterNonEmpty(_)
FilterNonEmpty(ss) ==
    IF ss = <<>> THEN <<>>
    ELSE IF Head(ss) = <<>> THEN FilterNonEmpty(Tail(ss))
         ELSE <<Head(ss)>> \o FilterNonEmpty(Tail(ss))

UL(items) ==
    Mk(<<"<", "u", "l", ">">>) \o Flatten(items) \o Mk(<<"<", "/", "u", "l", ">">>)

OL(items) ==
    Mk(<<"<", "o", "l", ">">>) \o Flatten(items) \o Mk(<<"<", "/", "o", "l", ">">>)

\* the branch of a block that matched the numbered heading with dashes
HeadingBlock(match) ==
    LET rawHeading == Trim(match.g1)
        rest == Trim(match.g2)
        afterDot == SkipDigits(rawHeading, 1) + 1
        prefixEnd == SkipSpace(rawHeading, afterDot) - 1
        numericPrefix == SubSeq(rawHeading, 1, prefixEnd)
        headingText == SubSeq(rawHeading, prefixEnd + 1, Len(rawHeading))
        strippedHeading == StripStars(headingText)
        pieces == SplitDash(rest)
        trimmed == [i \in DOMAIN pieces |-> Trim(pieces[i])]
        kept == FilterNonEmpty(trimmed)
        items == [i \in DOMAIN kept |-> ListItem(kept[i])]
    IN Mk(<<"<", "p", ">">>) \o STRONG
         \o escapeHtml(numericPrefix \o strippedHeading)
         \o STRONG_END \o Mk(<<"<", "/", "p", ">">>)
         \o UL(items)

\* l.startsWith("- ")
StartsWithDash(l) == Len(l) >= 2 /\ l[1] = "-" /\ l[2] = " "

\* /^\d+\.\s+/.test(l)
StartsWithNumber(l) ==
    LET d == SkipDigits(l, 1)
    IN d > 1 /\ d < Len(l) /\ l[d] = "." /\ IsSpace(l[d + 1])

\* l.replace(/^-\s+/, "")
StripDash(l) ==
    IF Len(l) >= 2 /\ l[1] = "-" /\ IsSpace(l[2])
    THEN SubSeq(l, SkipSpace(l, 2), Len(l)) ELSE l

\* l.replace(/^\d+\.\s+/, "")
StripNumber(l) ==
    IF StartsWithNumber(l)
    THEN SubSeq(l, SkipSpace(l, SkipDigits(l, 1) + 1), Len(l)) ELSE l

\* paragraph.replace(/\n/g, "<br>")
Br(ts) == ReplaceChar(ts, NL, <<"<", "b", "r", ">">>)

\* block.split(/\n/).map((l) => l.trim())
TrimmedLines(block) ==
    LET lines == SplitLines(block) IN [i \in DOMAIN lines |-> Trim(lines[i])]

\* the body of the loop over the blocks: what is pushed for one block
FormatBlock(block) ==
    LET numberedWithDashes == NumberedWithDashes(block)
        lines == TrimmedLines(block)
        isUnordered == \A i \in DOMAIN lines : StartsWithDash(lines[i])
        isOrdered == \A i \in DOMAIN lines : StartsWithNumber(lines[i])
    IN IF numberedWithDashes.matched THEN HeadingBlock(numberedWithDashes)
       ELSE IF isUnordered
       THEN UL([i \in DOMAIN lines |-> ListItem(StripDash(lines[i]))])
       ELSE IF isOrdered
       THEN OL([i \in DOMAIN lines |-> ListItem(StripNumber(lines[i]))])
       ELSE Mk(<<"<", "p", ">">>) \o Br(Bold(escapeHtml(block)))
              \o Mk(<<"<", "/", "p", ">">>)

\* the block classification, for the formulas
BlockClass(block) ==
    LET lines == TrimmedLines(block)
    IN IF NumberedWithDashes(block).matched THEN "heading"
       ELSE IF \A i \in DOMAIN lines : StartsWithDash(lines[i]) THEN "unordered"
       ELSE IF \A i \in DOMAIN lines : StartsWithNumber(lines[i]) THEN "ordered"
       ELSE "paragraph"

formatMessageToHtml(t) ==
    IF t = <<>> THEN <<>>
    ELSE LET blocks == SplitBlocks(Normalize(t))
         IN Flatten([i \in DOMAIN blocks |-> FormatBlock(blocks[i])])

InitRender ==
    /\ WidgetIdle
    /\ errNet = ChatNet("reject", "", FALSE, 0, "", "", FALSE, NoResponse)
    /\ errOutcome = Pending
    /\ errShown = NULL
    /\ fmtText \in Starters
    /\ html = <<>>
    /\ rendered = FALSE

\* one more character of the message text
TypeChar(c) ==
    /\ ~rendered
    /\ \E st \in Starters :
          /\ IsPrefix(st, fmtText)
          /\ Len(fmtText) - Len(st) < MaxLen
    /\ fmtText' = Append(fmtText, c)
    /\ UNCHANGED <<widget, errNet, errOutcome, errShown, html, rendered>>

\* the message is displayed: dangerouslySetInnerHTML of formatMessageToHtml
Render ==
    /\ ~rendered
    /\ html' = formatMessageToHtml(fmtText)
    /\ rendered' = TRUE
    /\ UNCHANGED <<widget, errNet, errOutcome, errShown, fmtText>>

NextRender ==
    \/ \E c \in Alphabet : TypeChar(c)
    \/ Render

SpecRender == InitRender /\ [][NextRender]_vars

\* ----------------------------------------------------- step descriptions
\* a step in which send issued a request
SendStep == Len(chatReqs') = Len(chatReqs) + 1

\* the request issued by a SendStep
NewReq == chatReqs'[Len(chatReqs')]

\* a step in which send resumed with the response of the i-th request
SuccessStep(i) ==
    /\ chatReqs[i].outcome.threw = "none"
    /\ chatReqs' = RemoveAt(chatReqs, i)

\* a step in which send resumed with the failure of the i-th request
FailureStep(i) ==
    /\ chatReqs[i].outcome.threw \in {"ApiError", "Error", "other"}
    /\ chatReqs' = RemoveAt(chatReqs, i)

\* a step in which the bootstrap result (preset or fetched) is applied
BootstrapStep ==
    \/ phase = "constructed" /\ phase' = "mounted"
    \/ cfgFetch.state = "settled" /\ cfgFetch'.state = "done"

\* the config fetch failed: transport error, non-success status, bad body
ConfigFailed(net) == net.kind = "reject" \/ ~net.ok \/ ~net.jsonOk

LastTurn(m) == m[Len(m)]

\* ------------------------------------------------------------------ claims
\* C1: at most one chat request is in flight in every reachable state, and
\* while isTyping is true no step appends a user turn or issues a request.
C1_SingleFlight ==
    /\ [](Len(chatReqs) <= 1)
    /\ [][isTyping =>
            /\ NumUserTurns(messages') = NumUserTurns(messages)
            /\ Len(chatReqs') <= Len(chatReqs)]_vars

\* C1 witness: a request is in flight while follow-ups are still held, the
\* state in which a click on a chip would start a second request
C1_Witness ==
    mounted /\ isTyping /\ Len(chatReqs) = 1 /\ Len(followups) > 0

\* C2 (as claimed): every step that begins a user turn leaves followups empty.
C2_FollowupsClearedOnTurn ==
    [][(SendStep /\ mounted) => followups' = <<>>]_vars

\* C3 (as claimed): while a request started by send is in flight, and after a
\* successful reply, no error is displayed.
C3_ErrorClearedBySend ==
    /\ [](mounted /\ Len(chatReqs) > 0 => ~Truthy(rateLimitMessage))
    /\ [][\A i \in 1..Len(chatReqs) :
            (mounted /\ SuccessStep(i)) => ~Truthy(rateLimitMessage')]_vars

\* C4 (as claimed): applying the result of a failed config fetch changes
\* neither the transcript nor the follow-ups.
C4_FailedFetchLeavesState ==
    [][(cfgFetch.state = "settled" /\ cfgFetch'.state = "done"
          /\ ConfigFailed(cfgFetch.net))
         => (messages' = messages /\ followups' = followups)]_vars

\* C5 (as claimed): a step that appends to the transcript calls or schedules
\* an animated scroll to bottom exactly when userNearBottom held before it
\* (the non-animated scroll of the first population is left aside).
C5_ScrollIffNearBottom ==
    [][(mounted /\ Len(messages') > Len(messages))
         => ((lastScroll' = "smooth" \/ replyScrollTimers' > replyScrollTimers)
               <=> userNearBottom)]_vars

\* C6: a send appends exactly its user turn, nothing is appended while its
\* request is in flight, and its successful completion appends exactly one
\* agent turn with the raw reply, sets scopeId to the response's token and
\* followups to the response's follow-ups (empty when it has none).
C6_SuccessfulSend ==
    /\ [](mounted /\ Len(chatReqs) > 0
            => \A i \in 1..Len(chatReqs) :
                   LastTurn(messages) = UserTurn(chatReqs[i].message))
    /\ [][/\ SendStep => messages' = Append(messages, UserTurn(NewReq.message))
          /\ (mounted /\ Len(chatReqs) > 0 /\ Len(chatReqs') = Len(chatReqs))
                => messages' = messages
          /\ \A i \in 1..Len(chatReqs) :
                (mounted /\ SuccessStep(i)) =>
                    /\ scopeId' = chatReqs[i].outcome.res.scopeId
                    /\ followups' = Coalesce(chatReqs[i].outcome.res.followups)
                    /\ messages' =
                         Append(messages, AiTurn(chatReqs[i].outcome.res.reply))
         ]_vars

\* C6 witness: a second reply has replaced the token and emptied the
\* follow-ups its predecessor installed
C6_Witness ==
    /\ mounted /\ ~isTyping /\ Len(messages) = 4
    /\ LastTurn(messages) = AiTurn("r")
    /\ messages[3].text = "f"
    /\ scopeId = "t2" /\ followups = <<>>

\* C7: when send resumes with a failure, an error text is displayed, the
\* transcript is unchanged and ends with the user turn of that attempt, and
\* scopeId is unchanged.
C7_FailedSend ==
    [][\A i \in 1..Len(chatReqs) :
          (mounted /\ FailureStep(i)) =>
              /\ Truthy(rateLimitMessage')
              /\ messages' = messages
              /\ LastTurn(messages') = UserTurn(chatReqs[i].message)
              /\ scopeId' = scopeId]_vars

\* C7 witness: a failed attempt that followed a successful one
C7_Witness ==
    /\ mounted /\ ~isTyping /\ chatReqs = <<>>
    /\ Truthy(rateLimitMessage)
    /\ Len(messages) = 3 /\ LastTurn(messages).role = "user"
    /\ scopeId \in Tokens

\* C8: when send resumes, with a response or with any failure, isTyping
\* becomes false, and isTyping is never true with no request in flight.
C8_TypingReset ==
    /\ [](mounted /\ isTyping => Len(chatReqs) > 0)
    /\ [][\A i \in 1..Len(chatReqs) :
            (mounted /\ (SuccessStep(i) \/ FailureStep(i))) => ~isTyping']_vars

\* C8 witness: the controller is idle again after a failure
C8_Witness ==
    mounted /\ ~isTyping /\ chatReqs = <<>> /\ rateLimitMessage = "status"

\* the successful replies recorded in the transcript
NumReplies(m) ==
    Cardinality({i \in 1..Len(m) : m[i].role = "ai" /\ ~m[i].intro})

C10_BootstrapKeepsTranscript ==
    [][BootstrapStep =>
          /\ Len(messages) > 0 => messages' = messages
          /\ Len(messages) = 0 =>
                (messages' = <<>> \/
                 (Len(messages') = 1 /\ messages'[1].intro))]_vars

\* C10 witness: a fetched intro was applied after the user had sent a turn
C10_Witness ==
    /\ mounted /\ cfgFetch.state = "done"
    /\ ~ConfigFailed(cfgFetch.net)
    /\ Truthy(cfgFetch.net.json.initialMessage)
    /\ Len(messages) > 0 /\ messages[1].role = "user"

\* C11: when the config fetch resumes after the component was torn down,
\* neither the transcript nor the follow-ups change.
C11_LateBootstrapIgnored ==
    [][(phase = "unmounted" /\ cfgFetch.state = "settled"
          /\ cfgFetch'.state = "done")
         => (messages' = messages /\ followups' = followups)]_vars

\* C11 witness: a fetched config with an intro and follow-ups resumed after
\* teardown and left the empty transcript and follow-ups empty
C11_Witness ==
    /\ phase = "unmounted" /\ cfgFetch.state = "done"
    /\ ~ConfigFailed(cfgFetch.net)
    /\ Truthy(cfgFetch.net.json.initialMessage)
    /\ cfgFetch.net.json.followups.present
    /\ messages = <<>> /\ followups = <<>>

\* C12: in every step the previous transcript is a prefix of the new one.
C12_AppendOnly == [][IsPrefix(messages, messages')]_vars

\* C12 witness: an intro, a user turn and a reply were appended in turn
C12_Witness ==
    /\ Len(messages) = 3
    /\ messages[1].intro /\ messages[2].role = "user"
    /\ messages[3] = AiTurn("r")

\* a step in which the error banner is dismissed
DismissStep == Truthy(rateLimitMessage) /\ rateLimitMessage' = NULL

\* C14: whenever an error is displayed and no request is in flight, Dismiss
\* is enabled; dismissing then keeps the transcript and enables the input;
\* and an enabled input accepts a typed send, which appends the user turn to
\* the transcript and issues a request.
C14_ErrorNotFatal ==
    /\ []((mounted /\ Truthy(rateLimitMessage) /\ Len(chatReqs) = 0)
            => ENABLED Dismiss)
    /\ []((mounted /\ InputEnabled /\ NumUserTurns(messages) < MaxTurns)
            => ENABLED (/\ OnKeyDown("a")
                        /\ SendStep
                        /\ messages' = Append(messages, UserTurn("a"))))
    /\ [][(mounted /\ Len(chatReqs) = 0 /\ DismissStep)
            => (messages' = messages /\ InputEnabled')]_vars

\* C14 witness: after a failure was dismissed a typed send is in flight,
\* the failed attempt still in the transcript
C14_Witness ==
    /\ mounted /\ rateLimitMessage = NULL /\ Len(chatReqs) = 1
    /\ Len(messages) = 2
    /\ messages[1] = UserTurn("a") /\ messages[2] = UserTurn("a")

\* C15: dismissing the error sets rateLimitMessage to null and changes none
\* of the transcript, the follow-ups, scopeId and isTyping.
C15_DismissFrame ==
    [][DismissStep =>
          /\ rateLimitMessage' = NULL
          /\ messages' = messages
          /\ followups' = followups
          /\ scopeId' = scopeId
          /\ isTyping' = isTyping]_vars

\* C15 witness: the error of a failed attempt was dismissed while follow-ups
\* and a session token were held
C15_Witness ==
    /\ mounted /\ rateLimitMessage = NULL /\ ~isTyping
    /\ Len(messages) > 0 /\ LastTurn(messages).role = "user"
    /\ Len(followups) > 0 /\ scopeId \in Tokens

\* a step in which a follow-up chip was clicked: the text sent is one of the
\* chips (typed texts and chip texts are disjoint)
ClickStep ==
    /\ SendStep
    /\ \E i \in 1..Len(followups) : followups[i] = NewReq.message

\* C16: a click on the chip f leaves the state that send(f) leaves when it
\* is called with the follow-ups cleared: the follow-ups are empty, the user
\* turn f is appended, isTyping is set, one request with f and the current
\* scopeId is issued, and error and scopeId are as before.
C16_FollowupIsClearThenSend ==
    [][ClickStep => \E i \in 1..Len(followups) :
              /\ followups' = <<>>
              /\ messages' = Append(messages, UserTurn(followups[i]))
              /\ isTyping'
              /\ chatReqs' = Append(chatReqs, ChatRequest(followups[i]))
              /\ rateLimitMessage' = rateLimitMessage
              /\ scopeId' = scopeId]_vars

\* C16 witness: the chip f was clicked and its request is in flight
C16_Witness ==
    /\ mounted /\ isTyping /\ followups = <<>>
    /\ Len(chatReqs) = 1 /\ chatReqs[1].message = "f"
    /\ LastTurn(messages) = UserTurn("f")

\* C17 (as claimed): the step that first populates the transcript makes no
\* animated scroll and arms the non-animated one.
C17_FirstPopulationNotAnimated ==
    [][(phase' = "mounted" /\ Len(messages) = 0 /\ Len(messages') > 0)
         => (lastScroll' # "smooth" /\ initialScrollTimer')]_vars

\* C18 (as claimed): no step appends a user turn with empty text or issues
\* a request with empty text.
C18_EmptyTextIgnored ==
    [][SendStep => NewReq.message # ""]_vars

\* the text the claimed precedence selects for a failed answer: the body,
\* else the status line or the transport's message, else the fallback of
\* the failure kind
ClaimedErrorText(net) ==
    IF net.kind = "http" /\ ~net.ok
    THEN Or(net.bodyText,
            Or(net.statusText,
               IF net.status = 429
               THEN "Rate limit exceeded for this configuration."
               ELSE "Server error (" \o ToString(net.status) \o ")"))
    ELSE Or(net.errMessage, "Chat request failed.")

\* C13 (as claimed): the banner text of a failed request is the body, else
\* the status line or transport message, else the fallback of its kind.
C13_ErrorTextPrecedence ==
    errShown # NULL => errShown = ClaimedErrorText(errNet)

\* C19: in every rendered text, each occurrence of & < > " ' in the markup
\* was emitted by the renderer (a tag or an escape entity); no reserved
\* character is copied from the text, whichever way its blocks are classified.
C19_ReservedOnlyFromRenderer ==
    rendered => \A i \in DOMAIN html : html[i].c \in Reserved => html[i].m

\* a numbered heading with a dash item holding a reserved character was
\* rendered: heading paragraph, then a list whose item is the entity
C19_Witness ==
    /\ rendered
    /\ fmtText = <<"1", ".", "a", ":", "-", " ", "<">>
    /\ BlockClass(fmtText) = "heading"
    /\ \E i \in DOMAIN html : html[i].c = "&" /\ html[i].m
    /\ \A i \in DOMAIN html : html[i].c = "<" => html[i].m

\* the lines of a block that hold text, trimmed
TextLines(block) == FilterNonEmpty(TrimmedLines(block))

\* the text is one block, not a numbered heading, and every line of it that
\* holds text begins, once trimmed, with "- "
IsDashBlock(t) ==
    /\ t # <<>>
    /\ Len(SplitBlocks(Normalize(t))) = 1
    /\ ~NumberedWithDashes(Normalize(t)).matched
    /\ TextLines(Normalize(t)) # <<>>
    /\ \A i \in DOMAIN TextLines(Normalize(t)) :
          StartsWithDash(TextLines(Normalize(t))[i])

\* C20: a block that is not a numbered heading and whose non-empty lines all
\* begin, once trimmed, with "- " is rendered as an unordered list with one
\* item per such line, in order, also when the block has whitespace-only
\* lines or a single leading or trailing newline.
C20_DashBlockIsUnorderedList ==
    (rendered /\ IsDashBlock(fmtText)) =>
        html = UL([i \in DOMAIN TextLines(Normalize(fmtText)) |->
                      ListItem(StripDash(TextLines(Normalize(fmtText))[i]))])

\* the last turn of the transcript is a reply: no user turn has begun since
\* the reply installed its follow-ups
AfterReply ==
    /\ Len(messages) > 0
    /\ LastTurn(messages).role = "ai"
    /\ ~LastTurn(messages).intro

\* C21 (as claimed): when the bootstrap config fetch resumes after a reply
\* installed its follow-ups and before the next user turn, the follow-ups
\* stay those of the reply.
C21_ReplyFollowupsSurviveBootstrap ==
    [][(mounted /\ AfterReply /\ cfgFetch.state = "settled"
          /\ cfgFetch'.state = "done")
         => followups' = followups]_vars

\* C22: while the component is mounted, isTyping is true exactly when a chat
\* request is in flight: the typing indicator is never hidden while a request
\* is pending and never shown when none is.
C22_TypingIffInFlight ==
    mounted => (isTyping <=> Len(chatReqs) > 0)

\* C22 witness: the second request has its response on the wire and send has
\* not resumed yet; the indicator is still shown
C22_Witness ==
    /\ mounted /\ isTyping
    /\ Len(chatReqs) = 1 /\ chatReqs[1].outcome.threw = "none"
    /\ NumReplies(messages) = 1

\* C23: an intro turn occurs only as the first turn of the transcript (so at
\* most once), and every other agent turn comes right after a user turn.
C23_TurnStructure ==
    \A i \in 1..Len(messages) :
        /\ messages[i].intro => i = 1
        /\ (messages[i].role = "ai" /\ ~messages[i].intro)
              => (i > 1 /\ messages[i - 1].role = "user")

\* C23 witness: an intro followed by two full turns
C23_Witness ==
    /\ Len(messages) = 5
    /\ messages[1].intro
    /\ messages[3].role = "ai" /\ messages[5].role = "ai"
====
